---- MODULE Spec2Model ----
(***************************************************************************)
(* A model of the deterministic Turing Machine simulator of                *)
(* src/src/TuringMachine.py: the TMState builder (TMState.__init__,        *)
(* add_transition), the TM constructor and its validation, TM.step (one    *)
(* read-write-move cycle) and TM.run (the halting loop).                   *)
(*                                                                         *)
(* A TMState is a record [name, state_type, transitions]; the machine's    *)
(* current_state is the position of a state in self.states (Python keeps   *)
(* a reference to the object), or None.  The tape is a sequence; Python's  *)
(* 0-based index i is position i + 1 of the sequence.                      *)
(***************************************************************************)
EXTENDS Integers, Sequences, FiniteSets

\* ---------------------------------------------------------------- bounds
\* States a caller puts in the list handed to TM(...) (construction runs).
MaxStates == 3
\* add_transition calls made while a machine is defined.
MaxTrans == 2
\* Length of the initial tape handed to TM(...).
MaxTape == 1
\* Largest max_steps handed to run.
MaxSteps == 2
\* step and run are called only while the tape is at most this long.
TapeCap == 2
\* TM objects constructed one after the other on one list of states.
MaxMachines == 2

\* ------------------------------------------------------------- constants
None == 0

EmptySymbol == "_"

Symbols == {EmptySymbol, "a"}

Names == {"S", "A", "B"}

TMStateType == {"START", "ACCEPTING", "REJECTING", "NORMAL"}

TMDirection == {"LEFT", "RIGHT"}

\* ------------------------------------------------------ TMState, builder
TMState(name, state_type) ==
    [name |-> name, state_type |-> state_type, transitions |-> <<>>]

TMTransition(symbol, new_state, new_symbol, direction) ==
    [symbol |-> symbol, new_state |-> new_state,
     new_symbol |-> new_symbol, direction |-> direction]

add_transition(state, symbol, new_state, new_symbol, direction) ==
    [state EXCEPT !.transitions =
        Append(@, TMTransition(symbol, new_state, new_symbol, direction))]

\* ------------------------------------------------------------- helpers
\* The positions 1..n that are in keep, in list order: the positions a list
\* comprehension  [s for s in list if ...]  keeps.
RECURSIVE Kept(_, _)
Kept(n, keep) ==
    IF n = 0 THEN <<>>
    ELSE Kept(n - 1, keep) \o (IF n \in keep THEN <<n>> ELSE <<>>)

OfType(sts, kind) ==
    Kept(Len(sts), {i \in DOMAIN sts : sts[i].state_type = kind})

\* --------------------------------------------------------- TM.__init__
\* TM.__init__ with the start-state test  len(start) == 0  alone: a list with
\* several START states passes it.
InitErrorNoStartOnly(sts, implicit_reject) ==
    LET start == OfType(sts, "START")
        accepting_states == OfType(sts, "ACCEPTING")
        rejecting_states == OfType(sts, "REJECTING")
    IN  IF Len(start) = 0 THEN "NoStart"
        ELSE IF Len(accepting_states) = 0 THEN "NoAccepting"
        ELSE IF ~implicit_reject /\ Len(rejecting_states) = 0 THEN "NoRejecting"
        ELSE "ok"

\* TM.__init__ with the accepting-state test made before the start-state
\* test.
InitErrorAcceptingFirst(sts, implicit_reject) ==
    LET start == OfType(sts, "START")
        accepting_states == OfType(sts, "ACCEPTING")
        rejecting_states == OfType(sts, "REJECTING")
    IN  IF Len(accepting_states) = 0 THEN "NoAccepting"
        ELSE IF Len(start) # 1 THEN "ExactlyOneStart"
        ELSE IF ~implicit_reject /\ Len(rejecting_states) = 0 THEN "NoRejecting"
        ELSE "ok"

\* The error TM.__init__ raises for the list sts and the flag, or "ok".
InitError(sts, implicit_reject) ==
    LET start == OfType(sts, "START")
        accepting_states == OfType(sts, "ACCEPTING")
        rejecting_states == OfType(sts, "REJECTING")
    IN  IF Len(start) # 1 THEN "ExactlyOneStart"
        ELSE IF Len(start) = 0 THEN "NoStart"
        ELSE IF Len(accepting_states) = 0 THEN "NoAccepting"
        ELSE IF ~implicit_reject /\ Len(rejecting_states) = 0 THEN "NoRejecting"
        ELSE "ok"

InitCurrent(sts) ==
    LET start == OfType(sts, "START") IN start[1]

\* ------------------------------------------------------------- TM.step
\* The extension one cell too early:  head_pos + 1 >= len(tape).
ExtendEarly(tp, head) ==
    IF head + 1 >= Len(tp) THEN Append(tp, EmptySymbol) ELSE tp

\* The extension one cell too late:  head_pos > len(tape).
ExtendLate(tp, head) ==
    IF head > Len(tp) THEN Append(tp, EmptySymbol) ELSE tp

\* line 162: lazy right-extension.
Extend(tp, head) ==
    IF head >= Len(tp) THEN Append(tp, EmptySymbol) ELSE tp

\* The first triggered transition alone (a search that stops at a match).
MatchingFirst(state, read) ==
    LET ts == state.transitions
        idx == Kept(Len(ts), {i \in DOMAIN ts : ts[i].symbol = read})
    IN  [k \in 1..(IF Len(idx) = 0 THEN 0 ELSE 1) |-> state.transitions[idx[k]]]

\* line 164: the transitions of a state triggered by the symbol read.
Matching(state, read) ==
    LET ts == state.transitions
        idx == Kept(Len(ts), {i \in DOMAIN ts : ts[i].symbol = read})
    IN  [k \in 1..Len(idx) |-> state.transitions[idx[k]]]

\* The first state of the name alone (a lookup that stops at a match).
ResolveFirst(sts, target) ==
    LET idx == Kept(Len(sts), {i \in DOMAIN sts : sts[i].name = target})
    IN  [k \in 1..(IF Len(idx) = 0 THEN 0 ELSE 1) |-> idx[k]]

\* line 170: the states a target name resolves to.
Resolve(sts, target) ==
    Kept(Len(sts), {i \in DOMAIN sts : sts[i].name = target})

\* The movement without the test for head position 0: LEFT always
\* decrements.
MoveNegative(tp, head, direction) ==
    IF direction = "LEFT"
        THEN [tape |-> tp, head_pos |-> head - 1]
    ELSE [tape |-> tp, head_pos |-> head + 1]

\* The movement that stays at head position 0 on LEFT and inserts nothing.
MoveNoInsert(tp, head, direction) ==
    IF head = 0 /\ direction = "LEFT"
        THEN [tape |-> tp, head_pos |-> head]
    ELSE IF direction = "LEFT"
        THEN [tape |-> tp, head_pos |-> head - 1]
    ELSE [tape |-> tp, head_pos |-> head + 1]

\* The movement that drops the cells right of the head when it moves LEFT
\* (a tape kept compact).
MoveTrim(tp, head, direction) ==
    IF head = 0 /\ direction = "LEFT"
        THEN [tape |-> <<EmptySymbol>> \o tp, head_pos |-> head]
    ELSE IF direction = "LEFT"
        THEN [tape |-> SubSeq(tp, 1, head), head_pos |-> head - 1]
    ELSE [tape |-> tp, head_pos |-> head + 1]

\* The movement that, on LEFT at head position 0, inserts the cell and keeps
\* the head over the cell it wrote.
MoveInsertKeepCell(tp, head, direction) ==
    IF head = 0 /\ direction = "LEFT"
        THEN [tape |-> <<EmptySymbol>> \o tp, head_pos |-> head + 1]
    ELSE IF direction = "LEFT"
        THEN [tape |-> tp, head_pos |-> head - 1]
    ELSE [tape |-> tp, head_pos |-> head + 1]

\* lines 176-183: the head movement, after the write.
Move(tp, head, direction) ==
    IF head = 0 /\ direction = "LEFT"
        THEN [tape |-> <<EmptySymbol>> \o tp, head_pos |-> head]
    ELSE IF direction = "LEFT"
        THEN [tape |-> tp, head_pos |-> head - 1]
    ELSE [tape |-> tp, head_pos |-> head + 1]

Config(tp, head, cur) == [tape |-> tp, head_pos |-> head, current_state |-> cur]

\* step with the write made after the target state is resolved: a dangling
\* target leaves the cell under the head as it was.
StepFnWriteLate(sts, c) ==
    LET t1 == Extend(c.tape, c.head_pos)
    IN  IF c.current_state = None
            THEN [cfg |-> Config(t1, c.head_pos, c.current_state), err |-> "AttributeError"]
        ELSE IF c.head_pos + 1 \notin DOMAIN t1
            THEN [cfg |-> Config(t1, c.head_pos, c.current_state), err |-> "IndexError"]
        ELSE
        LET transitions == Matching(sts[c.current_state], t1[c.head_pos + 1])
        IN  IF Len(transitions) # 1
                THEN [cfg |-> Config(t1, c.head_pos, c.current_state), err |-> "NoTransition"]
            ELSE
            LET new_states == Resolve(sts, transitions[1].new_state)
            IN  IF Len(new_states) # 1
                    THEN [cfg |-> Config(t1, c.head_pos, c.current_state),
                          err |-> "NonExistentState"]
                ELSE
                LET t2 == [t1 EXCEPT ![c.head_pos + 1] = transitions[1].new_symbol]
                    m == Move(t2, c.head_pos, transitions[1].direction)
                IN  [cfg |-> Config(m.tape, m.head_pos, new_states[1]), err |-> "ok"]

\* One call of step on the configuration c of a machine with states sts:
\* the configuration it leaves and the error it raises ("ok" when none).
StepFn(sts, c) ==
    LET t1 == Extend(c.tape, c.head_pos)
    IN  IF c.current_state = None
            THEN [cfg |-> Config(t1, c.head_pos, c.current_state), err |-> "AttributeError"]
        ELSE IF c.head_pos + 1 \notin DOMAIN t1
            THEN [cfg |-> Config(t1, c.head_pos, c.current_state), err |-> "IndexError"]
        ELSE
        LET transitions == Matching(sts[c.current_state], t1[c.head_pos + 1])
        IN  IF Len(transitions) # 1
                THEN [cfg |-> Config(t1, c.head_pos, c.current_state), err |-> "NoTransition"]
            ELSE
            LET t2 == [t1 EXCEPT ![c.head_pos + 1] = transitions[1].new_symbol]
                new_states == Resolve(sts, transitions[1].new_state)
            IN  IF Len(new_states) # 1
                    THEN [cfg |-> Config(t2, c.head_pos, c.current_state),
                          err |-> "NonExistentState"]
                ELSE
                LET m == Move(t2, c.head_pos, transitions[1].direction)
                IN  [cfg |-> Config(m.tape, m.head_pos, new_states[1]), err |-> "ok"]

\* -------------------------------------------------------------- TM.run
\* The halting checks with the missing-transition error raised for a None
\* current state whatever implicit_reject is.
HaltCheckNoFlag(sts, implicit_reject, c) ==
    IF c.current_state = None THEN "MissingTransition"
    ELSE IF sts[c.current_state].state_type = "ACCEPTING" THEN "True"
    ELSE IF sts[c.current_state].state_type = "REJECTING" THEN "False"
    ELSE "continue"

\* Lines 137-145: what one loop iteration decides before it steps.
\* "continue" when the iteration goes on to call step.
HaltCheck(sts, implicit_reject, c) ==
    IF ~implicit_reject /\ c.current_state = None THEN "MissingTransition"
    ELSE IF c.current_state = None THEN "False"
    ELSE IF sts[c.current_state].state_type = "ACCEPTING" THEN "True"
    ELSE IF sts[c.current_state].state_type = "REJECTING" THEN "False"
    ELSE "continue"

\* The loop that steps first and checks for a halting state afterwards.
RECURSIVE RunLoopStepFirst(_, _, _, _, _)
RunLoopStepFirst(sts, implicit_reject, c, n, steps) ==
    IF n <= 0 THEN [cfg |-> c, outcome |-> "None", steps |-> steps]
    ELSE
    LET r == StepFn(sts, c)
    IN  IF r.err # "ok"
            THEN [cfg |-> r.cfg, outcome |-> r.err, steps |-> steps + 1]
        ELSE
        LET h == HaltCheck(sts, implicit_reject, r.cfg)
        IN  IF h # "continue" THEN [cfg |-> r.cfg, outcome |-> h, steps |-> steps + 1]
            ELSE RunLoopStepFirst(sts, implicit_reject, r.cfg, n - 1, steps + 1)

\* The loop with one iteration too many:  range(max_steps + 1).
RECURSIVE RunLoopOneMore(_, _, _, _, _)
RunLoopOneMore(sts, implicit_reject, c, n, steps) ==
    IF n < 0 THEN [cfg |-> c, outcome |-> "None", steps |-> steps]
    ELSE
    LET h == HaltCheck(sts, implicit_reject, c)
    IN  IF h # "continue" THEN [cfg |-> c, outcome |-> h, steps |-> steps]
        ELSE
        LET r == StepFn(sts, c)
        IN  IF r.err # "ok"
                THEN [cfg |-> r.cfg, outcome |-> r.err, steps |-> steps + 1]
            ELSE RunLoopOneMore(sts, implicit_reject, r.cfg, n - 1, steps + 1)

\* The loop of a run that starts by putting the head back at position 0.
RECURSIVE RunLoopRewind(_, _, _, _, _)
RunLoopRewind(sts, implicit_reject, c, n, steps) ==
    IF n <= 0 THEN [cfg |-> c, outcome |-> "None", steps |-> steps]
    ELSE
    LET c0 == IF steps = 0 THEN Config(c.tape, 0, c.current_state) ELSE c
        h == HaltCheck(sts, implicit_reject, c0)
    IN  IF h # "continue" THEN [cfg |-> c0, outcome |-> h, steps |-> steps]
        ELSE
        LET r == StepFn(sts, c0)
        IN  IF r.err # "ok"
                THEN [cfg |-> r.cfg, outcome |-> r.err, steps |-> steps + 1]
            ELSE RunLoopRewind(sts, implicit_reject, r.cfg, n - 1, steps + 1)

\* The loop  for _ in range(n): ...  with `steps` calls of step made so far.
\* outcome: "True", "False", an error, or "None" when the loop runs out.
RECURSIVE RunLoop(_, _, _, _, _)
RunLoop(sts, implicit_reject, c, n, steps) ==
    IF n <= 0 THEN [cfg |-> c, outcome |-> "None", steps |-> steps]
    ELSE
    LET h == HaltCheck(sts, implicit_reject, c)
    IN  IF h # "continue" THEN [cfg |-> c, outcome |-> h, steps |-> steps]
        ELSE
        LET r == StepFn(sts, c)
        IN  IF r.err # "ok"
                THEN [cfg |-> r.cfg, outcome |-> r.err, steps |-> steps + 1]
            ELSE RunLoop(sts, implicit_reject, r.cfg, n - 1, steps + 1)

\* ---------------------------------------------------------------- state
VARIABLES
    states,           \* the caller's list of TMState, then self.states
    tape,             \* self.tape
    head_pos,         \* self.head_pos
    current_state,    \* self.current_state: a position of states, or None
    implicit_reject,  \* self.implicit_reject
    phase,            \* "build": no TM yet; "ready": constructed; "failed"
    call,             \* the last call made: operation, argument, the
                      \* configuration it started from, outcome, steps made,
                      \* and the run it resumes
    default_tape,     \* the list that is the default value of the tape
                      \* parameter of TM.__init__ (one object per program)
    tape_is_default,  \* self.tape is that list
    machines          \* TM objects constructed so far

vars == <<states, tape, head_pos, current_state, implicit_reject, phase, call,
          default_tape, tape_is_default, machines>>

Cur == Config(tape, head_pos, current_state)

\* No run resumed: the call before was not a run that ended with no result.
NotResumed == [on |-> FALSE, max_steps |-> 0, pre |-> Config(<<>>, 0, None)]

NoCall ==
    [op |-> "none", max_steps |-> 0, pre |-> Config(<<>>, 0, None),
     outcome |-> "none", steps |-> 0, resumed |-> NotResumed]

\* self.tape is mutated in place: when it is the default list of TM.__init__
\* the default list changes with it.
TapeWritten ==
    /\ default_tape' = (IF tape_is_default THEN tape' ELSE default_tape)
    /\ UNCHANGED <<tape_is_default, machines>>

\* Tapes a caller hands to TM(...).
RECURSIVE SeqsUpTo(_, _)
SeqsUpTo(S, n) ==
    IF n = 0 THEN {<<>>}
    ELSE LET shorter == SeqsUpTo(S, n - 1)
         IN  shorter \cup {Append(s, x) : s \in {q \in shorter : Len(q) = n - 1}, x \in S}

Tapes == SeqsUpTo(Symbols, MaxTape)

NumTrans(sts) ==
    LET RECURSIVE Sum(_)
        Sum(i) == IF i > Len(sts) THEN 0 ELSE Len(sts[i].transitions) + Sum(i + 1)
    IN  Sum(1)

\* The state lists whose machines are run: the shape of the repository's
\* tests (start, accepting, rejecting), the shape of its example (a normal
\* state, no rejecting state), two states with the start state last, and a
\* list in which two states have the same name.
Skeletons ==
    { << TMState("S", "START"), TMState("A", "ACCEPTING"), TMState("B", "REJECTING") >>,
      << TMState("S", "START"), TMState("B", "NORMAL"), TMState("A", "ACCEPTING") >>,
      << TMState("A", "ACCEPTING"), TMState("S", "START") >>,
      << TMState("S", "START"), TMState("A", "ACCEPTING"), TMState("A", "REJECTING") >> }

\* -------------------------------------------------------------- actions
\* TMState(name, state_type), put at the end of the caller's list.
NewState(name, state_type) ==
    /\ phase = "build"
    /\ Len(states) < MaxStates
    /\ states' = Append(states, TMState(name, state_type))
    /\ UNCHANGED <<tape, head_pos, current_state, implicit_reject, phase, call>>
    /\ UNCHANGED <<default_tape, tape_is_default, machines>>

\* states[i].add_transition(symbol, new_state, new_symbol, direction)
AddTransition(i, symbol, new_state, new_symbol, direction) ==
    /\ phase = "build"
    /\ NumTrans(states) < MaxTrans
    /\ states' = [states EXCEPT ![i] =
                     add_transition(@, symbol, new_state, new_symbol, direction)]
    /\ UNCHANGED <<tape, head_pos, current_state, implicit_reject, phase, call>>
    /\ UNCHANGED <<default_tape, tape_is_default, machines>>

\* TM(states, tp, implicit_reject=ir)
Construct(tp, ir) ==
    /\ phase = "build"
    /\ tape' = tp
    /\ implicit_reject' = ir
    /\ head_pos' = 0
    /\ call' = [NoCall EXCEPT !.op = "init", !.outcome = InitError(states, ir)]
    /\ \/ /\ InitError(states, ir) = "ok"
          /\ current_state' = InitCurrent(states)
          /\ phase' = "ready"
       \/ /\ InitError(states, ir) # "ok"
          /\ current_state' = None
          /\ phase' = "failed"
    /\ tape_is_default' = FALSE
    /\ machines' = machines + 1
    /\ UNCHANGED <<states, default_tape>>

\* TM(states, implicit_reject=ir): the tape argument left out, so that
\* self.tape is the default list of line 93.  A caller may construct a
\* further machine on the same list of states.
ConstructDefault(ir) ==
    /\ phase \in {"build", "ready"}
    /\ machines < MaxMachines
    /\ tape' = default_tape
    /\ implicit_reject' = ir
    /\ head_pos' = 0
    /\ call' = [NoCall EXCEPT !.op = "init", !.outcome = InitError(states, ir)]
    /\ \/ /\ InitError(states, ir) = "ok"
          /\ current_state' = InitCurrent(states)
          /\ phase' = "ready"
       \/ /\ InitError(states, ir) # "ok"
          /\ current_state' = None
          /\ phase' = "failed"
    /\ tape_is_default' = TRUE
    /\ machines' = machines + 1
    /\ UNCHANGED <<states, default_tape>>

\* self.step()
Step ==
    /\ phase = "ready"
    /\ Len(tape) <= TapeCap
    /\ LET r == StepFn(states, Cur)
       IN  /\ tape' = r.cfg.tape
           /\ head_pos' = r.cfg.head_pos
           /\ current_state' = r.cfg.current_state
           /\ call' = [op |-> "step", max_steps |-> 0, pre |-> Cur,
                       outcome |-> r.err, steps |-> 1, resumed |-> NotResumed]
    /\ TapeWritten
    /\ UNCHANGED <<states, implicit_reject, phase>>

\* self.run(max_steps=n)
Run(n) ==
    /\ phase = "ready"
    /\ Len(tape) <= TapeCap
    /\ LET r == RunLoop(states, implicit_reject, Cur, n, 0)
       IN  /\ tape' = r.cfg.tape
           /\ head_pos' = r.cfg.head_pos
           /\ current_state' = r.cfg.current_state
           /\ call' = [op |-> "run", max_steps |-> n, pre |-> Cur,
                       outcome |-> r.outcome, steps |-> r.steps,
                       resumed |-> IF call.op = "run" /\ call.outcome = "None"
                                      THEN [on |-> TRUE, max_steps |-> call.max_steps,
                                            pre |-> call.pre]
                                      ELSE NotResumed]
    /\ TapeWritten
    /\ UNCHANGED <<states, implicit_reject, phase>>

\* A caller's assignment  m.current_state = None  (the attributes of a TM are
\* public and callers assign them; step itself never assigns None).
ClearCurrentState ==
    /\ phase = "ready"
    /\ current_state # None
    /\ current_state' = None
    /\ call' = [NoCall EXCEPT !.op = "assign", !.pre = Cur]
    /\ UNCHANGED <<states, tape, head_pos, implicit_reject, phase>>
    /\ UNCHANGED <<default_tape, tape_is_default, machines>>

\* ------------------------------------------------------- specifications
Blank ==
    /\ tape = <<>>
    /\ head_pos = 0
    /\ current_state = None
    /\ implicit_reject = FALSE
    /\ phase = "build"
    /\ call = NoCall
    /\ default_tape = <<>>
    /\ tape_is_default = FALSE
    /\ machines = 0

\* Machines that are defined, constructed and then stepped and run.
Init ==
    /\ states \in Skeletons
    /\ Blank

Define ==
    \E i \in 1..Len(states), symbol \in Symbols, new_state \in Names,
       new_symbol \in Symbols, direction \in TMDirection :
        AddTransition(i, symbol, new_state, new_symbol, direction)

Build ==
    \E tp \in Tapes, ir \in BOOLEAN : Construct(tp, ir)

Execute ==
    \E n \in 0..MaxSteps : Run(n)

Next ==
    \/ Define
    \/ Build
    \/ Step
    \/ Execute

Spec == Init /\ [][Next]_vars

\* Construction alone, for every list of up to MaxStates states.
InitCtor ==
    /\ states = <<>>
    /\ Blank

Declare ==
    \E name \in Names, state_type \in TMStateType : NewState(name, state_type)

NextCtor ==
    \/ Declare
    \/ Build

SpecCtor == InitCtor /\ [][NextCtor]_vars

\* Machines whose caller may also set current_state to None between calls.
\* They are defined on the list of the tests and on the two-state list.
InitAssign ==
    /\ states \in {sk \in Skeletons : \A i \in DOMAIN sk : sk[i].state_type # "NORMAL"
                                                     /\ Cardinality({j \in DOMAIN sk : sk[j].name = sk[i].name}) = 1}
    /\ Blank

NextAssign ==
    \/ Next
    \/ ClearCurrentState

SpecAssign == InitAssign /\ [][NextAssign]_vars

\* Machines constructed without a tape argument, one after the other, on the
\* two-state list and on the list of the tests.
InitShared == InitAssign

BuildDefault ==
    \E ir \in BOOLEAN : ConstructDefault(ir)

NextShared ==
    \/ Define
    \/ BuildDefault
    \/ Step
    \/ Execute

SpecShared == InitShared /\ [][NextShared]_vars

TypeOK ==
    /\ phase \in {"build", "ready", "failed"}
    /\ head_pos \in Int
    /\ current_state \in 0..Len(states)
    /\ tape_is_default \in BOOLEAN
    /\ machines \in 0..MaxMachines

\* ------------------------------------------- vocabulary of the properties
\* The kind of the current state of a configuration.
KindAt(c) ==
    IF c.current_state = None THEN "None" ELSE states[c.current_state].state_type

Halting == {"ACCEPTING", "REJECTING", "None"}

\* The machine after k calls of step from c, stopping at the first error.
RECURSIVE Reach(_, _)
Reach(c, k) ==
    IF k = 0 THEN [cfg |-> c, err |-> "ok"]
    ELSE LET p == Reach(c, k - 1)
         IN  IF p.err # "ok" THEN p ELSE StepFn(states, p.cfg)

\* k steps from c succeed, none of them taken from a halting configuration.
Runs(c, k) ==
    /\ Reach(c, k).err = "ok"
    /\ \A j \in 0..(k - 1) : KindAt(Reach(c, j).cfg) \notin Halting

\* After exactly k successful steps from c the machine is first in a
\* configuration of the given kind.
Reaches(c, k, kind) ==
    Runs(c, k) /\ KindAt(Reach(c, k).cfg) = kind

\* The symbol step reads in configuration c.
SymbolRead(c) ==
    IF c.head_pos < Len(c.tape) THEN c.tape[c.head_pos + 1] ELSE EmptySymbol

\* The transitions of the current state of c triggered by the symbol read.
Triggered(c) ==
    LET ts == states[c.current_state].transitions
    IN  {i \in DOMAIN ts : ts[i].symbol = SymbolRead(c)}

MatchCount(c) == Cardinality(Triggered(c))

\* The one transition triggered in c (when MatchCount(c) = 1).
Taken(c) ==
    LET ts == states[c.current_state].transitions
    IN  ts[CHOOSE i \in Triggered(c) : TRUE]

Named(target) == {i \in DOMAIN states : states[i].name = target}

CountType(kind) == Cardinality({i \in DOMAIN states : states[i].state_type = kind})

RunCalled == phase = "ready" /\ call.op = "run"

StepCalled == phase = "ready" /\ call.op = "step" /\ call.pre.current_state # None

StepDone == StepCalled /\ call.outcome = "ok"

\* ------------------------------------------------------------------ C1
\* C1: run(max_steps) returns True if and only if the machine is in an
\* ACCEPTING state after at most max_steps successful steps from the
\* configuration at the call (zero steps when it already is), with no halting
\* state and no error before it.
C1_TrueIffAcceptsWithinMaxSteps ==
    RunCalled =>
        ( call.outcome = "True"
          <=> \E k \in 0..call.max_steps : Reaches(call.pre, k, "ACCEPTING") )

\* What run does: it returns True if and only if the ACCEPTING state is
\* there at the start of one of its max_steps iterations, that is after at
\* most max_steps - 1 steps.
RunTrueIffAcceptSeenByAnIteration ==
    RunCalled =>
        ( call.outcome = "True"
          <=> \E k \in 0..(call.max_steps - 1) : Reaches(call.pre, k, "ACCEPTING") )

\* ------------------------------------------------------------------ C2
\* C2: run(max_steps) returns False if and only if, within max_steps steps,
\* the machine reaches a REJECTING state (before any ACCEPTING state or
\* error), or reaches a null current state while implicit_reject is set.
C2_FalseIffRejectsWithinMaxSteps ==
    RunCalled =>
        ( call.outcome = "False"
          <=> \E k \in 0..call.max_steps :
                \/ Reaches(call.pre, k, "REJECTING")
                \/ implicit_reject /\ Reaches(call.pre, k, "None") )

\* What run does: the same, for the configurations at the start of one of
\* its max_steps iterations.
RunFalseIffRejectSeenByAnIteration ==
    RunCalled =>
        ( call.outcome = "False"
          <=> \E k \in 0..(call.max_steps - 1) :
                \/ Reaches(call.pre, k, "REJECTING")
                \/ implicit_reject /\ Reaches(call.pre, k, "None") )

\* ------------------------------------------------------------------ C3
\* A run that comes, in one of its iterations, to a non-halting state with
\* no transition for the symbol under the head.
DeadEnd ==
    /\ RunCalled
    /\ \E k \in 0..(call.max_steps - 1) :
        /\ Runs(call.pre, k)
        /\ KindAt(Reach(call.pre, k).cfg) \notin Halting
        /\ MatchCount(Reach(call.pre, k).cfg) = 0

\* C3: with implicit_reject set, a run that comes to a non-halting state with
\* no transition for the symbol read rejects: it returns False and the
\* current state is None, and no error is raised.
C3_ImplicitRejectAtDeadEnd ==
    (DeadEnd /\ implicit_reject) =>
        (call.outcome = "False" /\ current_state = None)

\* What run does at a dead end, whatever the flag: step's error.
DeadEndRaises ==
    DeadEnd => (call.outcome = "NoTransition" /\ current_state # None)

\* ------------------------------------------------------------------ C4
\* C4: TM(states, implicit_reject) fails if and only if the number of START
\* states is not 1, or there is no ACCEPTING state, or there is no REJECTING
\* state and implicit_reject is false; otherwise the machine is constructed.
C4_ConstructionFailsIff ==
    call.op = "init" =>
        /\ call.outcome # "ok"
            <=> \/ CountType("START") # 1
                \/ CountType("ACCEPTING") = 0
                \/ CountType("REJECTING") = 0 /\ ~implicit_reject
        /\ phase = (IF call.outcome = "ok" THEN "ready" ELSE "failed")

C4_Witness ==
    /\ call.op = "init"
    /\ call.outcome = "NoRejecting"
    /\ CountType("START") = 1
    /\ Len(states) = MaxStates

\* ------------------------------------------------------------------ C5
\* C5: step, called with a current state, raises the no-transition error if
\* and only if the number of transitions of the current state triggered by
\* the symbol read (after the lazy right-extension) is 0 or at least 2.
C5_NoTransitionIffNotOneMatch ==
    StepCalled =>
        ( call.outcome = "NoTransition"
          <=> (MatchCount(call.pre) = 0 \/ MatchCount(call.pre) >= 2) )

C5_Witness ==
    /\ StepCalled
    /\ call.outcome = "NoTransition"
    /\ MatchCount(call.pre) >= 2

\* ------------------------------------------------------------------ C6
\* C6: when exactly one transition is triggered, step raises the
\* non-existent-state error if and only if the transition's target name is
\* the name of no state or of more than one state of the list; otherwise the
\* current state becomes the one state of that name.
C6_DanglingIffNotOneTarget ==
    (StepCalled /\ MatchCount(call.pre) = 1) =>
        LET target == Named(Taken(call.pre).new_state)
        IN  /\ call.outcome = "NonExistentState" <=> Cardinality(target) # 1
            /\ Cardinality(target) = 1 =>
                 (call.outcome = "ok" /\ current_state \in target)

C6_Witness ==
    /\ StepCalled
    /\ MatchCount(call.pre) = 1
    /\ call.outcome = "NonExistentState"
    /\ Cardinality(Named(Taken(call.pre).new_state)) >= 2

\* ------------------------------------------------------------------ C7
\* An iteration of the run finds the current state None.
ObservesNone ==
    \E k \in 0..(call.max_steps - 1) : Reaches(call.pre, k, "None")

C8_HeadWithinTape ==
    phase = "ready" => (0 <= head_pos /\ head_pos <= Len(tape))

C8_Witness ==
    /\ StepDone
    /\ call.pre.head_pos = 0
    /\ Taken(call.pre).direction = "LEFT"
    /\ head_pos = 0

\* ------------------------------------------------------------------ C9
\* A step that succeeds with a LEFT transition from head position 0.
LeftAtZero ==
    /\ StepDone
    /\ call.pre.head_pos = 0
    /\ Taken(call.pre).direction = "LEFT"

\* C9 as claimed: such a step puts one empty cell at index 0, leaves the head
\* at 0 and makes the tape exactly one cell longer, for every tape.
C9_LeftAtZeroGrowsByOne ==
    LeftAtZero =>
        /\ head_pos = 0
        /\ tape[1] = EmptySymbol
        /\ Len(tape) = Len(call.pre.tape) + 1

\* C9: such a step leaves the head at 0 and the tape is one empty cell
\* followed by the tape read (the old tape, extended by one empty cell when
\* it was empty) with the symbol written in its first cell: one cell longer
\* than a non-empty tape, two cells longer than an empty one.
C9_LeftAtZeroInsertsCell ==
    LeftAtZero =>
        LET old == call.pre.tape
            read == IF old = <<>> THEN <<EmptySymbol>> ELSE old
        IN  /\ head_pos = 0
            /\ tape = <<EmptySymbol>> \o [read EXCEPT ![1] = Taken(call.pre).new_symbol]
            /\ Len(tape) = Len(old) + (IF old = <<>> THEN 2 ELSE 1)

C9_Witness ==
    /\ LeftAtZero
    /\ call.pre.tape = <<>>
    /\ Len(tape) = 2

\* ----------------------------------------------------------------- C10
\* A step that succeeds with a LEFT transition from a head position > 0.
LeftAboveZero ==
    /\ StepDone
    /\ call.pre.head_pos > 0
    /\ Taken(call.pre).direction = "LEFT"

\* C10 as claimed: such a step takes 1 from head_pos and leaves the length of
\* the tape as it was.
C10_LeftKeepsLength ==
    LeftAboveZero =>
        /\ head_pos = call.pre.head_pos - 1
        /\ Len(tape) = Len(call.pre.tape)

\* C10: such a step takes 1 from head_pos; the tape keeps its length when the
\* head was on a cell of it, and is one cell longer (the lazy right-extension)
\* when the head was at the end of the tape.
C10_LeftMovesHead ==
    LeftAboveZero =>
        /\ head_pos = call.pre.head_pos - 1
        /\ Len(tape) = Len(call.pre.tape)
                         + (IF call.pre.head_pos = Len(call.pre.tape) THEN 1 ELSE 0)

C10_Witness ==
    /\ LeftAboveZero
    /\ call.pre.head_pos = Len(call.pre.tape)
    /\ Len(tape) = Len(call.pre.tape) + 1

\* ----------------------------------------------------------------- C11
\* The transitions of the current state of c triggered by the empty symbol.
EmptyTriggered(c) ==
    LET ts == states[c.current_state].transitions
    IN  {i \in DOMAIN ts : ts[i].symbol = EmptySymbol}

\* The cell step inserts at index 0: one, when it succeeds with a LEFT
\* transition t from head position 0.
Inserted(c, t) ==
    IF call.outcome = "ok" /\ c.head_pos = 0 /\ t.direction = "LEFT" THEN 1 ELSE 0

\* Scenario B: a run on an empty tape whose START state has one transition on
\* the empty symbol, moving RIGHT into the one state of its target name,
\* which is ACCEPTING.
ScenarioB ==
    /\ RunCalled
    /\ call.max_steps >= 1
    /\ call.pre.tape = <<>>
    /\ call.pre.head_pos = 0
    /\ KindAt(call.pre) = "START"
    /\ Cardinality(EmptyTriggered(call.pre)) = 1
    /\ LET ts == states[call.pre.current_state].transitions
           t == ts[CHOOSE i \in EmptyTriggered(call.pre) : TRUE]
       IN  /\ t.direction = "RIGHT"
           /\ Cardinality(Named(t.new_state)) = 1
           /\ \A i \in Named(t.new_state) : states[i].state_type = "ACCEPTING"

\* C11: a step called with head_pos = len(tape) appends one empty cell at the
\* right end before it reads, so it reads the empty symbol (the transitions
\* that count are those on the empty symbol, and the symbol written lands in
\* the appended, last cell); with head_pos < len(tape) it appends nothing.
\* A run of Scenario B ends with a one-cell tape and head position 1.
C11_ExtendsAtEndBeforeReading ==
    /\ StepCalled =>
        LET old == call.pre.tape
            ts == states[call.pre.current_state].transitions
        IN  IF call.pre.head_pos = Len(old)
            THEN /\ call.outcome = "NoTransition"
                    <=> Cardinality(EmptyTriggered(call.pre)) # 1
                 /\ call.outcome = "NoTransition" => tape = Append(old, EmptySymbol)
                 /\ call.outcome # "NoTransition" =>
                      LET t == ts[CHOOSE i \in EmptyTriggered(call.pre) : TRUE]
                      IN  /\ Len(tape) = Len(old) + 1 + Inserted(call.pre, t)
                          /\ tape[Len(tape)] = t.new_symbol
            ELSE /\ call.outcome # "ok" => Len(tape) = Len(old)
                 /\ call.outcome = "ok" =>
                      Len(tape) = Len(old) + Inserted(call.pre, Taken(call.pre))
    /\ ScenarioB => (Len(tape) = 1 /\ head_pos = 1)

C11_Witness ==
    /\ StepDone
    /\ Len(call.pre.tape) >= 1
    /\ call.pre.head_pos = Len(call.pre.tape)
    /\ Len(tape) = Len(call.pre.tape) + 1
    /\ tape[Len(tape)] = "a"

\* ----------------------------------------------------------------- C12
\* C12: run ends with no result if and only if its max_steps iterations were
\* used up without the machine halting; when it ends with no result the
\* current state is neither ACCEPTING nor REJECTING.
C12_NoResultIffNotHalted ==
    RunCalled =>
        /\ call.outcome = "None"
            <=> /\ Runs(call.pre, call.max_steps)
                /\ KindAt(Reach(call.pre, call.max_steps).cfg) \notin Halting
        /\ call.outcome = "None" => KindAt(Cur) \notin {"ACCEPTING", "REJECTING"}

\* What run does: it ends with no result exactly when each of its max_steps
\* iterations made a successful step; the state left by the last step is not
\* looked at.
RunNoneIffEveryIterationSteps ==
    RunCalled =>
        /\ call.outcome = "None" <=> Runs(call.pre, call.max_steps)
        /\ call.outcome = "None" => Cur = Reach(call.pre, call.max_steps).cfg

\* ----------------------------------------------------------------- C13
\* A run, with max_steps >= 1, called on a machine in a halting state.
RunOnHalted ==
    /\ RunCalled
    /\ call.max_steps >= 1
    /\ KindAt(call.pre) \in {"ACCEPTING", "REJECTING"}

\* C13: a run called on a machine whose current state is ACCEPTING or
\* REJECTING returns True for ACCEPTING and False for REJECTING, makes no
\* step and leaves tape, head position and current state as they were, also
\* when the halting state has transitions.
C13_RerunOfHaltedMachine ==
    RunOnHalted =>
        /\ call.outcome = (IF KindAt(call.pre) = "ACCEPTING" THEN "True" ELSE "False")
        /\ call.steps = 0
        /\ Cur = call.pre

C13_Witness ==
    /\ RunOnHalted
    /\ KindAt(call.pre) = "ACCEPTING"
    /\ MatchCount(call.pre) = 1
    /\ Cardinality(Named(Taken(call.pre).new_state)) = 1
    /\ call.pre.head_pos > 0

\* ----------------------------------------------------------------- C14
\* C14: no call of step or run, failing or not, makes the tape shorter; a
\* step keeps every cell but the one under the head, at its index or one
\* index further when a cell was inserted in front.
C14_TapeNeverShrinks ==
    /\ (phase = "ready" /\ call.op \in {"step", "run"}) =>
            Len(tape) >= Len(call.pre.tape)
    /\ StepCalled =>
        \E shift \in {0, 1} :
            \A i \in DOMAIN call.pre.tape :
                /\ i + shift \in DOMAIN tape
                /\ i # call.pre.head_pos + 1 => tape[i + shift] = call.pre.tape[i]

C14_Witness ==
    /\ StepDone
    /\ call.pre.head_pos > 0
    /\ call.pre.head_pos < Len(call.pre.tape)
    /\ Taken(call.pre).direction = "LEFT"

\* ----------------------------------------------------------------- C15
RunOutcomes == {"True", "False", "None", "NoTransition", "NonExistentState"}

\* C15: a call run(max_steps) ends, also on a machine that loops for ever:
\* it calls step at most max_steps times and ends with True, False, no result
\* or an error of step.
C15_RunIsBoundedByMaxSteps ==
    RunCalled =>
        /\ call.steps <= call.max_steps
        /\ call.outcome \in RunOutcomes
        /\ call.outcome = "None" => call.steps = call.max_steps

C15_Witness ==
    /\ RunCalled
    /\ call.max_steps = MaxSteps
    /\ call.steps = MaxSteps
    /\ call.outcome = "None"
    /\ current_state = call.pre.current_state
    /\ Runs(Cur, MaxSteps + 2)

\* ----------------------------------------------------------------- C16
\* C16: the constructor's tests are made in order: a wrong number of START
\* states is reported whatever else is wrong, a missing ACCEPTING state
\* before a missing REJECTING state.
C16_ValidationOrder ==
    call.op = "init" =>
        /\ CountType("START") # 1 => call.outcome = "ExactlyOneStart"
        /\ (CountType("START") = 1 /\ CountType("ACCEPTING") = 0) =>
                call.outcome = "NoAccepting"
        /\ (states = <<>>) => call.outcome = "ExactlyOneStart"

C16_Witness ==
    /\ call.op = "init"
    /\ CountType("START") = 2
    /\ CountType("ACCEPTING") = 0
    /\ CountType("REJECTING") = 0
    /\ ~implicit_reject
    /\ call.outcome = "ExactlyOneStart"

\* ----------------------------------------------------------------- C18
\* The tape step read from in configuration c.
TapeRead(c) ==
    IF c.head_pos >= Len(c.tape) THEN Append(c.tape, EmptySymbol) ELSE c.tape

\* What a failing step leaves of configuration c, for the error it raised.
AfterFailure(c, err) ==
    Config(IF err = "NonExistentState"
              THEN [TapeRead(c) EXCEPT ![c.head_pos + 1] = Taken(c).new_symbol]
              ELSE TapeRead(c),
           c.head_pos, c.current_state)

StepErrors == {"NoTransition", "NonExistentState"}

\* C18: a step that raises leaves the current state and the head position as
\* they were; the tape is the old one with at most one empty cell appended
\* and, for the non-existent-state error only, the cell under the head
\* holding the symbol of the triggered transition.  The steps a run made
\* before the failing one stay applied.
C18_FailingStepEffect ==
    /\ (StepCalled /\ call.outcome \in StepErrors) =>
            Cur = AfterFailure(call.pre, call.outcome)
    /\ (RunCalled /\ call.outcome \in StepErrors) =>
            /\ Runs(call.pre, call.steps - 1)
            /\ Cur = AfterFailure(Reach(call.pre, call.steps - 1).cfg, call.outcome)

C18_Witness ==
    /\ RunCalled
    /\ call.outcome = "NonExistentState"
    /\ call.steps = 2
    /\ tape[head_pos + 1] # Reach(call.pre, 1).cfg.tape[head_pos + 1]

\* ----------------------------------------------------------------- C19
\* A sequence without the empty symbols at its end.
RECURSIVE Strip(_)
Strip(s) ==
    IF s = <<>> THEN s
    ELSE IF s[Len(s)] = EmptySymbol THEN Strip(SubSeq(s, 1, Len(s) - 1))
    ELSE s

Rev(s) == [i \in 1..Len(s) |-> s[Len(s) + 1 - i]]

\* The configuration of the reference machine a stored configuration stands
\* for: the cells left of the head (nearest first) and from the head on, each
\* without the blank cells beyond its last non-blank one, and the state.
Abs(c) ==
    [left |-> Strip(Rev(SubSeq(c.tape, 1, c.head_pos))),
     right |-> Strip(SubSeq(c.tape, c.head_pos + 1, Len(c.tape))),
     state |-> c.current_state]

Stuck == [left |-> <<>>, right |-> <<>>, state |-> -1]

\* One step of the reference machine: a tape of cells indexed by the
\* integers, blank where nothing was written.
RefStep(a) ==
    IF a.state \notin DOMAIN states THEN Stuck
    ELSE
    LET read == IF a.right = <<>> THEN EmptySymbol ELSE a.right[1]
        rest == IF a.right = <<>> THEN <<>> ELSE Tail(a.right)
        ts == states[a.state].transitions
        on == {i \in DOMAIN ts : ts[i].symbol = read}
    IN  IF Cardinality(on) # 1 THEN Stuck
        ELSE
        LET t == ts[CHOOSE i \in on : TRUE]
        IN  IF Cardinality(Named(t.new_state)) # 1 THEN Stuck
            ELSE
            LET q == CHOOSE i \in Named(t.new_state) : TRUE
            IN  IF t.direction = "RIGHT"
                    THEN [left |-> Strip(<<t.new_symbol>> \o a.left),
                          right |-> rest, state |-> q]
                ELSE [left |-> IF a.left = <<>> THEN <<>> ELSE Tail(a.left),
                      right |-> Strip(<<IF a.left = <<>> THEN EmptySymbol ELSE a.left[1],
                                        t.new_symbol>> \o rest),
                      state |-> q]

RECURSIVE RefRun(_, _)
RefRun(a, k) == IF k = 0 THEN a ELSE RefStep(RefRun(a, k - 1))

\* C19: a successful step is a step of the reference machine on the tape the
\* list stands for, and so are the steps of a run that raises no error.
C19_RefinesReferenceMachine ==
    /\ StepDone => Abs(Cur) = RefStep(Abs(call.pre))
    /\ (RunCalled /\ call.outcome \in {"True", "False", "None"}) =>
            Abs(Cur) = RefRun(Abs(call.pre), call.steps)

C19_Witness ==
    /\ RunCalled
    /\ call.outcome = "None"
    /\ call.steps = 2
    /\ call.pre.head_pos = 0
    /\ head_pos = 0
    /\ Len(tape) = Len(call.pre.tape) + 2
    /\ Abs(Cur).right # <<>>

\* ----------------------------------------------------------------- C17
\* C17: a machine constructed without a tape argument starts with an empty
\* tape, whatever machines constructed without one did before (no machine's
\* steps change the tape of another unless the caller gave both the same
\* list).
C17_DefaultTapeStartsEmpty ==
    (phase = "ready" /\ call.op = "init" /\ tape_is_default) => tape = <<>>

\* What the code does: every machine constructed without a tape argument
\* holds the one default list, with what earlier machines left on it.
DefaultTapeIsShared ==
    (phase = "ready" /\ tape_is_default) => tape = default_tape

\* ----------------------------------------------------------------- C20
\* C20: when run(n) ended with no result, a following run(m) ends with the
\* outcome and in the configuration of one run(n + m) from the configuration
\* the first run started in.
C20_RunResumes ==
    (RunCalled /\ call.resumed.on) =>
        LET whole == RunLoop(states, implicit_reject, call.resumed.pre,
                             call.resumed.max_steps + call.max_steps, 0)
        IN  /\ whole.outcome = call.outcome
            /\ whole.cfg = Cur

C20_Witness ==
    /\ RunCalled
    /\ call.resumed.on
    /\ call.resumed.max_steps = 1
    /\ call.max_steps = 1
    /\ call.steps = 1
    /\ call.outcome = "None"
    /\ head_pos # call.resumed.pre.head_pos

====
